---------------------------- MODULE Spec2Model ----------------------------
(***************************************************************************)
(* HandshakeDetectStreamType <Stream, Logic>: the buffered accumulation    *)
(* loop that feeds a detection logic until it reaches a verdict, in its    *)
(* blocking form (do_handshake) and its asynchronous form                  *)
(* (async_do_handshake / on_async_read_some).                              *)
(*                                                                         *)
(* Two detector objects are modelled side by side, each bound to its own   *)
(* transport, both fed from the same wire bytes and the same detection     *)
(* logic, so that two runs can be compared.                                *)
(***************************************************************************)
EXTENDS Integers, Sequences, FiniteSets, TLC

\* ----------------------------------------------------------------- bounds
\* Largest max_needed () of a detection logic.
MaxNeeded == 2
\* Number of bytes the peer has sent on the connection.
MaxWire == 3
\* Most bytes handed to fill () before detection starts.
MaxFill == MaxNeeded
\* Most bytes passed as initial buffers to a buffered entry point.
MaxInitial == MaxNeeded
\* Most transport reads one detection issues before the transport stops
\* completing them.
MaxReads == MaxNeeded + 1
\* entry-point invocations on one detector, where re-invocation is allowed
MaxInvocations == 2

\* ------------------------------------------------------------- vocabulary
Inst == {1, 2}

\* error_code () : success
OK == "success"
TransportErrors == {"eof", "reset"}
\* what a Callback may leave in the modifiable ec of on_detect
HandlerErrors == {OK, "rejected"}
\* what the caller's ec may hold when handshake is entered
EntryErrors == {OK, "stale"}
\* completion handlers a caller may pass to async_handshake
Handlers == {"hA", "hB"}
Null == "null"

ChunkModes == {"one", "full", "script"}
Takes == {"zero", "one", "full"}

Min(a, b) == IF a < b THEN a ELSE b

IsPrefix(s, t) == Len(s) <= Len(t) /\ SubSeq(t, 1, Len(s)) = s

\* The bytes on the wire: a first byte that decides the protocol, then
\* bytes that differ by position.
WireOf(first, n) == [k \in 1..n |-> IF k = 1 THEN first ELSE k]

Wires == {WireOf(f, n) : f \in {22, 71}, n \in 0..MaxWire}

\* ------------------------------------------------- the detection logic
\* A logic: max_needed () = needed; analyze reaches a verdict once it sees
\* decideAt bytes; bytes_consumed () = used on finish.  decideAt < needed is
\* a logic that can decide early, decideAt > needed one that breaks the
\* max_needed contract.
Policies ==
    {[needed |-> n, decideAt |-> t, used |-> k] :
        n \in 1..MaxNeeded, t \in 1..(MaxNeeded + 1), k \in 0..(MaxNeeded + 1)}

ValidPolicies == {p \in Policies : p.decideAt <= p.needed + 1 /\ p.used <= p.decideAt}

NewLogic == [finished |-> FALSE, verdict |-> "unknown", consumed |-> 0]

Classify(b) == IF b = 22 THEN "encrypted" ELSE "plaintext"

max_needed(p) == p.needed

analyze(p, lg, view) ==
    IF lg.finished \/ Len(view) < p.decideAt
    THEN lg
    ELSE [finished |-> TRUE, verdict |-> Classify(view[1]), consumed |-> p.used]

finished(lg) == lg.finished

bytes_consumed(lg) == lg.consumed

\* ------------------------------------------------------------- the arena
\* boost::asio::streambuf: `in` is the readable region, `out` the bytes
\* written into the prepared region and not committed yet.
NewBuffer == [in |-> <<>>, out |-> <<>>]

size(b) == Len(b.in)

data(b) == b.in

prepare(b, n) == [b EXCEPT !.out = <<>>]

buffer_copy(b, bytes) == [b EXCEPT !.out = bytes]

commit(b, n) ==
    [in |-> b.in \o SubSeq(b.out, 1, Min(n, Len(b.out))), out |-> <<>>]

consume(b, n) == [b EXCEPT !.in = SubSeq(@, n + 1, Len(@))]

\* ------------------------------------------------------------------ state
VARIABLES
    policy,   \* the Logic both detectors are instantiated with
    wire,     \* the bytes the peer sent, in order
    chunk,    \* chunk[i]: how detector i's transport cuts the wire into reads
    script,   \* outcomes of the reads of a "script" transport, by read index
    plan,     \* the bytes the caller has already read and how it hands them over
    det       \* det[i]: the members of detector i, its control state and its history

vars == <<policy, wire, chunk, script, plan, det>>

\* A HandshakeDetectStreamType right after construction.
\*   pc        "idle" | "read_some" (blocked in m_next_layer.read_some) |
\*             "async_read" (an async_read_some is outstanding) |
\*             "done" (handshake returned / the callback was invoked) |
\*             "aborted" (check_postcondition failed)
\*   ec, available   the locals of do_handshake that live across read_some
\*   requests  sizes of the reads asked of the transport, in order
\*   results   [ec, n] of the reads the transport completed, in order
\*   detects   the calls made on m_callback
\*   analyzed  the views handed to m_logic.analyze
\*   removed   the bytes m_buffer.consume removed
\*   committed the bytes committed to m_buffer
\*   taken     how many wire bytes were handed to this detector
\*   nfill, ninit  how many of them through fill () and as initial buffers
\*   entry_ec  the value of the caller's ec when handshake was entered
\*   registered  the completion handler the caller passed to async_handshake
\*   origCalls how often the detector itself invoked that handler
\*   consumes  the amounts passed to m_buffer.consume, in order
\*   populated how often m_origHandler / m_origBufferedHandler were assigned
NewDetector ==
    [pc |-> "idle", entry |-> "none",
     m_buffer |-> NewBuffer, m_logic |-> NewLogic,
     m_origHandler |-> Null, m_origBufferedHandler |-> Null,
     ec |-> OK, available |-> 0, ret |-> "none",
     requests |-> <<>>, results |-> <<>>, detects |-> <<>>,
     analyzed |-> <<>>, removed |-> <<>>, committed |-> <<>>,
     taken |-> 0, nfill |-> 0, ninit |-> 0,
     entry_ec |-> OK, registered |-> Null, origCalls |-> 0,
     consumes |-> <<>>, populated |-> 0]

\* ------------------------------------------------ members of the detector
\* m_buffer.commit (n), with the record of what was committed
buffer_commit(s, n) ==
    [s EXCEPT !.m_buffer = commit(@, n),
              !.committed = @ \o SubSeq(s.m_buffer.out, 1, n)]

\* m_buffer.commit (buffer_copy (m_buffer.prepare (buffer_size (buffers)), buffers))
transfer_caller_data(s, buffers) ==
    buffer_commit(
        [s EXCEPT !.m_buffer = buffer_copy(prepare(@, Len(buffers)), buffers)],
        Len(buffers))

fill(s, buffers) == transfer_caller_data(s, buffers)

\* m_logic.analyze (m_buffer.data ())
logic_analyze(s) ==
    [s EXCEPT !.m_logic = analyze(policy, @, data(s.m_buffer)),
              !.analyzed = Append(@, data(s.m_buffer))]

\* consume what we used (for SSL its 0)
consume_used(s) ==
    LET consumed == bytes_consumed(s.m_logic)
    IN  [s EXCEPT !.m_buffer = consume(@, consumed),
                  !.removed = @ \o SubSeq(s.m_buffer.in, 1,
                                           Min(consumed, size(s.m_buffer))),
                  !.consumes = Append(@, consumed)]

\* a slip in the comparison: reads although enough bytes are buffered
need_more_le(available, needed) == available <= needed

\* if (available < needed)
need_more(available, needed) == available < needed

\* check_postcondition (expr): TRUE when execution goes on, FALSE is fatal
check_postcondition(expr) == expr

\* m_callback->on_detect (m_logic.get (), ec, ConstBuffers (m_buffer.data ()));
\* hec is what the callback leaves in ec.
on_detect(s, hec) ==
    [s EXCEPT !.detects = Append(@, [op |-> "on_detect", logic |-> s.m_logic,
                                     ec |-> s.ec, buffers |-> data(s.m_buffer),
                                     handler |-> Null, ecOut |-> hec]),
              !.ec = hec]

\* a slip in the test: the overload of the handler that is not set is chosen
on_async_detect_swapped(s, ec) ==
    IF s.m_origHandler # Null
    THEN [s EXCEPT !.pc = "done",
                   !.detects = Append(@, [op |-> "on_async_detect_transfer",
                                          logic |-> s.m_logic, ec |-> ec,
                                          buffers |-> data(s.m_buffer),
                                          handler |-> s.m_origBufferedHandler,
                                          ecOut |-> ec])]
    ELSE [s EXCEPT !.pc = "done",
                   !.detects = Append(@, [op |-> "on_async_detect_error",
                                          logic |-> s.m_logic, ec |-> ec,
                                          buffers |-> data(s.m_buffer),
                                          handler |-> s.m_origHandler,
                                          ecOut |-> ec])]

\* m_callback->on_async_detect (m_logic.get (), ec, buffers, origHandler),
\* the overload chosen by which of the two handlers is set
on_async_detect(s, ec) ==
    IF s.m_origBufferedHandler # Null
    THEN [s EXCEPT !.pc = "done",
                   !.detects = Append(@, [op |-> "on_async_detect_transfer",
                                          logic |-> s.m_logic, ec |-> ec,
                                          buffers |-> data(s.m_buffer),
                                          handler |-> s.m_origBufferedHandler,
                                          ecOut |-> ec])]
    ELSE [s EXCEPT !.pc = "done",
                   !.detects = Append(@, [op |-> "on_async_detect_error",
                                          logic |-> s.m_logic, ec |-> ec,
                                          buffers |-> data(s.m_buffer),
                                          handler |-> s.m_origHandler,
                                          ecOut |-> ec])]

\* m_next_layer.async_read_some (buffers, bind (&on_async_read_some, ...))
async_read_some(s, n) ==
    [s EXCEPT !.pc = "async_read",
              !.m_buffer = prepare(@, n),
              !.requests = Append(@, n)]

\* ------------------------------------------------------ the blocking loop
\* The do { } while (! ec) of do_handshake, run until it blocks in read_some,
\* returns or aborts.  resumed: read_some has just returned and its bytes are
\* committed, the iteration goes on after the if (available < needed) block.
RECURSIVE do_handshake_loop(_, _, _)
do_handshake_loop(s, resumed, hec) ==
    LET available == IF resumed THEN s.available ELSE size(s.m_buffer)
        needed == max_needed(policy)
    IN  IF ~resumed /\ need_more(available, needed)
        THEN [s EXCEPT !.pc = "read_some",
                       !.available = available,
                       !.m_buffer = prepare(@, needed - available),
                       !.requests = Append(@, needed - available)]
        ELSE IF s.ec # OK
        THEN [s EXCEPT !.pc = "done", !.ret = s.ec]
        ELSE LET s1 == logic_analyze(s)
             IN  IF finished(s1.m_logic)
                 THEN LET s2 == on_detect(consume_used(s1), hec)
                      IN  [s2 EXCEPT !.pc = "done", !.ret = s2.ec]
                 ELSE IF ~check_postcondition(available < needed)
                 THEN [s1 EXCEPT !.pc = "aborted"]
                 ELSE do_handshake_loop(s1, FALSE, hec)

\* a slip: ec = error_code () is missing, the caller's value stays in ec
do_handshake_keep_ec(s, e0, buffers, hec) ==
    do_handshake_loop(
        transfer_caller_data([s EXCEPT !.entry_ec = e0, !.ec = e0], buffers),
        FALSE, hec)

\* error_code do_handshake (handshake_type, error_code& ec, ConstBuffers const&)
\* e0 is the value of the caller's ec on entry.
do_handshake(s, e0, buffers, hec) ==
    do_handshake_loop(
        transfer_caller_data([s EXCEPT !.entry_ec = e0, !.ec = OK], buffers),
        FALSE, hec)

\* m_buffer.commit (m_next_layer.read_some (buffers, ec)) and the rest of the loop
read_some_returned(s, ec, n, hec) ==
    do_handshake_loop(buffer_commit([s EXCEPT !.ec = ec], n), TRUE, hec)

handshake(s, e0, hec) ==
    do_handshake([s EXCEPT !.entry = "handshake"], e0, <<>>, hec)

handshake_buffered(s, e0, buffers, hec) ==
    do_handshake([s EXCEPT !.entry = "handshake_buffered"], e0, buffers, hec)

\* -------------------------------------------------- the asynchronous loop
\* a slip in the guard of analyze: a read of a single byte is not analyzed
on_async_read_some_gt1(s, ec, bytes_transferred) ==
    IF ec = OK
    THEN LET s1 == buffer_commit(s, bytes_transferred)
             available == size(s1.m_buffer)
             needed == max_needed(policy)
             s2 == IF bytes_transferred > 1 THEN logic_analyze(s1) ELSE s1
         IN  IF finished(s2.m_logic)
             THEN on_async_detect(consume_used(s2), ec)
             ELSE IF ~check_postcondition(available < needed)
             THEN [s2 EXCEPT !.pc = "aborted"]
             ELSE async_read_some(s2, needed - available)
    ELSE on_async_detect(s, ec)

\* a slip: the commit is done before ec is looked at
on_async_read_some_commit_first(s, ec, bytes_transferred) ==
    LET s1 == buffer_commit(s, bytes_transferred)
        available == size(s1.m_buffer)
        needed == max_needed(policy)
        s2 == IF bytes_transferred > 0 THEN logic_analyze(s1) ELSE s1
    IN  IF ec = OK
        THEN IF finished(s2.m_logic)
             THEN on_async_detect(consume_used(s2), ec)
             ELSE IF ~check_postcondition(available < needed)
             THEN [s2 EXCEPT !.pc = "aborted"]
             ELSE async_read_some(s2, needed - available)
        ELSE on_async_detect(s1, ec)

\* a slip: the return after on_async_detect is missing, the next read is
\* scheduled although the verdict was delivered
on_async_read_some_no_return(s, ec, bytes_transferred) ==
    IF ec = OK
    THEN LET s1 == buffer_commit(s, bytes_transferred)
             available == size(s1.m_buffer)
             needed == max_needed(policy)
             s2 == IF bytes_transferred > 0 THEN logic_analyze(s1) ELSE s1
             s3 == IF finished(s2.m_logic)
                   THEN on_async_detect(consume_used(s2), ec)
                   ELSE s2
         IN  IF ~check_postcondition(available < needed)
             THEN [s3 EXCEPT !.pc = "aborted"]
             ELSE async_read_some(s3, needed - available)
    ELSE on_async_detect(s, ec)

\* a slip: the contract check is missing, the next read is scheduled whenever
\* the logic is not finished
on_async_read_some_unchecked(s, ec, bytes_transferred) ==
    IF ec = OK
    THEN LET s1 == buffer_commit(s, bytes_transferred)
             available == size(s1.m_buffer)
             needed == max_needed(policy)
             s2 == IF bytes_transferred > 0 THEN logic_analyze(s1) ELSE s1
         IN  IF finished(s2.m_logic)
             THEN on_async_detect(consume_used(s2), ec)
             ELSE async_read_some(s2, needed - available)
    ELSE on_async_detect(s, ec)

\* a slip: available is sampled before the commit, as the blocking loop
\* samples it before its read
on_async_read_some_stale_available(s, ec, bytes_transferred) ==
    IF ec = OK
    THEN LET s1 == buffer_commit(s, bytes_transferred)
             available == size(s.m_buffer)
             needed == max_needed(policy)
             s2 == IF bytes_transferred > 0 THEN logic_analyze(s1) ELSE s1
         IN  IF finished(s2.m_logic)
             THEN on_async_detect(consume_used(s2), ec)
             ELSE IF ~check_postcondition(available < needed)
             THEN [s2 EXCEPT !.pc = "aborted"]
             ELSE async_read_some(s2, needed - available)
    ELSE on_async_detect(s, ec)

\* a slip: the used bytes are consumed after every analyze, not only once
\* the logic is finished
on_async_read_some_consume_early(s, ec, bytes_transferred) ==
    IF ec = OK
    THEN LET s1 == buffer_commit(s, bytes_transferred)
             available == size(s1.m_buffer)
             needed == max_needed(policy)
             s2 == IF bytes_transferred > 0
                   THEN consume_used(logic_analyze(s1))
                   ELSE s1
         IN  IF finished(s2.m_logic)
             THEN on_async_detect(s2, ec)
             ELSE IF ~check_postcondition(available < needed)
             THEN [s2 EXCEPT !.pc = "aborted"]
             ELSE async_read_some(s2, needed - available)
    ELSE on_async_detect(s, ec)

on_async_read_some(s, ec, bytes_transferred) ==
    IF ec = OK
    THEN LET s1 == buffer_commit(s, bytes_transferred)
             available == size(s1.m_buffer)
             needed == max_needed(policy)
             s2 == IF bytes_transferred > 0 THEN logic_analyze(s1) ELSE s1
         IN  IF finished(s2.m_logic)
             THEN on_async_detect(consume_used(s2), ec)
             ELSE IF ~check_postcondition(available < needed)
             THEN [s2 EXCEPT !.pc = "aborted"]
             ELSE async_read_some(s2, needed - available)
    ELSE on_async_detect(s, ec)

\* a slip: the copied caller bytes are never committed
async_do_handshake_uncommitted(s, buffers) ==
    on_async_read_some(
        [s EXCEPT !.m_buffer = buffer_copy(prepare(@, Len(buffers)), buffers)],
        OK, 0)

async_do_handshake(s, buffers) ==
    on_async_read_some(
        [s EXCEPT !.m_buffer = buffer_copy(prepare(@, Len(buffers)), buffers)],
        OK, Len(buffers))

\* bassert (expr): a debug build stops the program when expr is false, a
\* release build compiles the check away.  TRUE when execution goes on.
bassert(expr, debug) == debug => expr

async_handshake(s, handler, debug) ==
    LET s1 == [s EXCEPT !.entry = "async_handshake",
                        !.m_origHandler = handler,
                        !.populated = @ + 1]
    IN  IF ~bassert(s1.m_origBufferedHandler = Null, debug)
        THEN [s1 EXCEPT !.pc = "aborted"]
        ELSE async_do_handshake(s1, <<>>)

async_handshake_buffered(s, buffers, handler, debug) ==
    LET s1 == [s EXCEPT !.entry = "async_handshake_buffered",
                        !.m_origBufferedHandler = handler,
                        !.populated = @ + 1]
    IN  IF ~bassert(s1.m_origHandler = Null, debug)
        THEN [s1 EXCEPT !.pc = "aborted"]
        ELSE async_do_handshake(s1, buffers)

\* ---------------------------------------------------------- the transport
Remaining(s) == Len(wire) - s.taken

\* the next n bytes of the wire
NextBytes(s, n) == SubSeq(wire, s.taken + 1, s.taken + n)

\* bytes a read of the last requested size transfers under outcome o
TransferCount(s, o) ==
    LET req == s.requests[Len(s.requests)]
    IN  CASE o.take = "zero" -> 0
          [] o.take = "one"  -> Min(1, Min(req, Remaining(s)))
          [] o.take = "full" -> Min(req, Remaining(s))

\* Both transports follow the same script of read outcomes, or the first hands
\* out single bytes and the second as many bytes as are asked for.
ChunkPairs ==
    {[i \in Inst |-> "script"], [i \in Inst |-> IF i = 1 THEN "one" ELSE "full"]}

\* nfill bytes go through fill (), then detection is entered through an entry
\* point with initial buffers (of ninit bytes) or one without.
Plans ==
    {p \in [nfill : 0..MaxFill, buffered : BOOLEAN, ninit : 0..MaxInitial] :
        ~p.buffered => p.ninit = 0}

\* A read succeeds with no byte, one byte or all it asked for, or fails: at
\* the end of the stream with nothing, on a reset with nothing or with a byte
\* already written.
Outcomes ==
    [ec : {OK}, take : Takes]
        \cup {[ec |-> "eof", take |-> "zero"],
              [ec |-> "reset", take |-> "zero"],
              [ec |-> "reset", take |-> "one"]}

\* what the transport of detector i may answer to its outstanding read
ReadOutcomes(i) ==
    LET s == det[i]
        k == Len(s.requests)
    IN  IF chunk[i] = "script"
        THEN IF k <= Len(script) THEN {script[k]} ELSE Outcomes
        ELSE IF Remaining(s) = 0
        THEN {[ec |-> "eof", take |-> "zero"]}
        ELSE {[ec |-> OK, take |-> chunk[i]]}

\* the transport wrote n wire bytes into the prepared region and reported ec
Transferred(s, ec, n) ==
    [s EXCEPT !.m_buffer = buffer_copy(@, NextBytes(s, n)),
              !.taken = @ + n,
              !.results = Append(@, [ec |-> ec, n |-> n])]

Scripted(i, o) ==
    IF chunk[i] = "script" /\ Len(det[i].requests) > Len(script)
    THEN Append(script, o)
    ELSE script

\* ---------------------------------------------------------------- actions
Init ==
    /\ policy \in ValidPolicies
    /\ wire \in Wires
    /\ chunk \in ChunkPairs
    /\ plan \in Plans
    /\ plan.nfill + plan.ninit <= Len(wire)
    \* a scripted transport ends the stream by its script, not by the wire
    /\ chunk[1] = "script" => Len(wire) = MaxWire
    /\ script = <<>>
    /\ det = [i \in Inst |-> NewDetector]

Fill(i) ==
    /\ det[i].pc = "idle"
    /\ \E n \in 1..MaxFill :
        /\ det[i].nfill + n <= plan.nfill
        /\ det' = [det EXCEPT ![i] =
                    [fill(det[i], NextBytes(det[i], n))
                        EXCEPT !.taken = @ + n, !.nfill = @ + n]]
    /\ UNCHANGED <<policy, wire, chunk, script, plan>>

Handshake(i) ==
    /\ det[i].pc = "idle"
    /\ det[i].nfill = plan.nfill
    /\ ~plan.buffered
    /\ \E e0 \in EntryErrors, hec \in HandlerErrors :
        det' = [det EXCEPT ![i] = handshake(det[i], e0, hec)]
    /\ UNCHANGED <<policy, wire, chunk, script, plan>>

HandshakeBuffered(i) ==
    /\ det[i].pc = "idle"
    /\ det[i].nfill = plan.nfill
    /\ plan.buffered
    /\ \E e0 \in EntryErrors, hec \in HandlerErrors, n \in {plan.ninit} :
        /\ det' = [det EXCEPT ![i] =
                    handshake_buffered(
                        [det[i] EXCEPT !.taken = @ + n, !.ninit = n],
                        e0, NextBytes(det[i], n), hec)]
    /\ UNCHANGED <<policy, wire, chunk, script, plan>>

AsyncHandshake(i) ==
    /\ det[i].pc = "idle"
    /\ det[i].nfill = plan.nfill
    /\ ~plan.buffered
    /\ \E h \in Handlers, debug \in BOOLEAN :
        det' = [det EXCEPT ![i] =
                 async_handshake([det[i] EXCEPT !.registered = h], h, debug)]
    /\ UNCHANGED <<policy, wire, chunk, script, plan>>

AsyncHandshakeBuffered(i) ==
    /\ det[i].pc = "idle"
    /\ det[i].nfill = plan.nfill
    /\ plan.buffered
    /\ \E h \in Handlers, n \in {plan.ninit}, debug \in BOOLEAN :
        /\ det' = [det EXCEPT ![i] =
                    async_handshake_buffered(
                        [det[i] EXCEPT !.taken = @ + n, !.ninit = n,
                                       !.registered = h],
                        NextBytes(det[i], n), h, debug)]
    /\ UNCHANGED <<policy, wire, chunk, script, plan>>

\* the blocking m_next_layer.read_some returns
ReadSome(i) ==
    /\ det[i].pc = "read_some"
    /\ Len(det[i].requests) <= MaxReads
    /\ \E o \in ReadOutcomes(i), hec \in HandlerErrors :
        LET n == TransferCount(det[i], o)
        IN  /\ det' = [det EXCEPT ![i] =
                        read_some_returned(Transferred(det[i], o.ec, n), o.ec, n, hec)]
            /\ script' = Scripted(i, o)
    /\ UNCHANGED <<policy, wire, chunk, plan>>

\* the outstanding async_read_some completes and its handler runs
AsyncReadComplete(i) ==
    /\ det[i].pc = "async_read"
    /\ Len(det[i].requests) <= MaxReads
    /\ \E o \in ReadOutcomes(i) :
        LET n == TransferCount(det[i], o)
        IN  /\ det' = [det EXCEPT ![i] =
                        on_async_read_some(Transferred(det[i], o.ec, n), o.ec, n)]
            /\ script' = Scripted(i, o)
    /\ UNCHANGED <<policy, wire, chunk, plan>>

Next ==
    \E i \in Inst :
        \/ Fill(i)
        \/ Handshake(i)
        \/ HandshakeBuffered(i)
        \/ AsyncHandshake(i)
        \/ AsyncHandshakeBuffered(i)
        \/ ReadSome(i)
        \/ AsyncReadComplete(i)

Spec == Init /\ [][Next]_vars

\* The caller uses a detector again: nothing in the class prevents a further
\* async_handshake on an instance that already delivered.  (A further call
\* while a read is outstanding would race with that read and is left out.)
AsyncHandshakeAgain(i) ==
    /\ det[i].entry \in {"async_handshake", "async_handshake_buffered"}
    /\ det[i].pc = "done"
    /\ det[i].populated < MaxInvocations
    /\ \E h \in Handlers, debug \in BOOLEAN :
        det' = [det EXCEPT ![i] =
                 async_handshake([det[i] EXCEPT !.registered = h], h, debug)]
    /\ UNCHANGED <<policy, wire, chunk, script, plan>>

AsyncHandshakeBufferedAgain(i) ==
    /\ det[i].entry \in {"async_handshake", "async_handshake_buffered"}
    /\ det[i].pc = "done"
    /\ det[i].populated < MaxInvocations
    /\ \E h \in Handlers, debug \in BOOLEAN,
          n \in 0..Min(MaxInitial, Remaining(det[i])) :
        /\ det' = [det EXCEPT ![i] =
                    async_handshake_buffered(
                        [det[i] EXCEPT !.taken = @ + n, !.ninit = @ + n,
                                       !.registered = h],
                        NextBytes(det[i], n), h, debug)]
    /\ UNCHANGED <<policy, wire, chunk, script, plan>>

NextReinvoke ==
    \/ Next
    \/ \E i \in Inst :
        \/ AsyncHandshakeAgain(i)
        \/ AsyncHandshakeBufferedAgain(i)

\* re-invocation is explored with the transports that hand out the wire
InitReinvoke == Init /\ chunk[1] # "script"

SpecReinvoke == InitReinvoke /\ [][NextReinvoke]_vars

\* Every read completes, with an error or with at least one byte: the
\* transports hand out the wire and report eof behind it, and the logic is
\* finished once it has analyzed max_needed () bytes.
InitLive ==
    /\ Init
    /\ chunk[1] # "script"
    /\ policy.decideAt <= policy.needed

SpecLive ==
    /\ InitLive
    /\ [][Next]_vars
    /\ \A i \in Inst : WF_vars(ReadSome(i)) /\ WF_vars(AsyncReadComplete(i))

\* ----------------------------------------------------- shared vocabulary
Blocking(s) == s.entry \in {"handshake", "handshake_buffered"}

Suspending(s) == s.entry \in {"async_handshake", "async_handshake_buffered"}

Terminal(s) == s.pc \in {"done", "aborted"}

\* the detector delivered a verdict to its callback
VerdictDelivered(s) ==
    /\ Len(s.detects) = 1
    /\ s.detects[1].logic.finished

\* bytes pre-supplied before the loop starts
PreSupplied(s) == s.nfill + s.ninit

LastResult(s) == s.results[Len(s.results)]

ReadFailed(s) == s.results # <<>> /\ LastResult(s).ec # OK

\* --------------------------------------------------------------------- C1
\* C1: when a verdict is delivered, the bytes consume removed from the head
\* of the arena followed by the leftover handed to the callback are exactly
\* the bytes committed to the arena, which are the wire bytes handed to the
\* detector (fill, initial buffers, reads) in order; the removed prefix has
\* bytes_consumed () bytes.
C1_NoLossNoDuplication ==
    \A i \in Inst :
        LET s == det[i]
        IN  VerdictDelivered(s) =>
                /\ s.removed \o s.detects[1].buffers = s.committed
                /\ s.committed = SubSeq(wire, 1, s.taken)
                /\ Len(s.removed) = bytes_consumed(s.detects[1].logic)

C1_Witness ==
    /\ Blocking(det[1]) /\ Suspending(det[2])
    /\ \A i \in Inst :
        /\ VerdictDelivered(det[i])
        /\ det[i].removed # <<>>
        /\ det[i].detects[1].buffers # <<>>
        /\ det[i].results # <<>>
    /\ det[1].nfill > 0

\* --------------------------------------------------------------------- C2
\* C2: if fill () supplied at least max_needed () bytes and async_handshake
\* (type, handler) is invoked on a logic that decides on max_needed () bytes,
\* the verdict is delivered through on_async_detect and no async_read_some
\* was scheduled.
C2_ZeroReadAsync ==
    \A i \in Inst :
        LET s == det[i]
        IN  (/\ s.entry = "async_handshake"
             /\ s.nfill >= max_needed(policy)
             /\ policy.decideAt <= policy.needed)
            => (/\ s.pc = "done"
                /\ VerdictDelivered(s)
                /\ s.requests = <<>>)

\* --------------------------------------------------------------------- C3
\* C3: a blocking handshake that starts with at least max_needed () bytes in
\* the arena (from fill () and/or initial buffers) never calls read_some; if
\* the logic finishes on these bytes, on_detect is invoked once and handshake
\* returns, and the logic finishes exactly when the bytes it decides on are
\* there.
C3_ZeroReadBlocking ==
    \A i \in Inst :
        LET s == det[i]
        IN  (Blocking(s) /\ PreSupplied(s) >= max_needed(policy))
            => (/\ s.requests = <<>>
                /\ Terminal(s)
                /\ (s.pc = "done") = (policy.decideAt <= PreSupplied(s))
                /\ finished(s.m_logic) =>
                    (/\ s.pc = "done"
                     /\ VerdictDelivered(s)
                     /\ s.detects[1].op = "on_detect"
                     /\ s.ret = s.detects[1].ecOut))

C3_Witness ==
    \E i \in Inst :
        /\ det[i].entry = "handshake_buffered"
        /\ det[i].nfill > 0 /\ det[i].ninit > 0
        /\ PreSupplied(det[i]) >= max_needed(policy)
        /\ det[i].pc = "done"
        /\ VerdictDelivered(det[i])
        /\ det[i].requests = <<>>

\* --------------------------------------------------------------------- C4
\* what the callback was given: the state of the logic and the leftover bytes
Delivered(s) ==
    [k \in 1..Len(s.detects) |->
        [logic |-> s.detects[k].logic, buffers |-> s.detects[k].buffers]]

\* C4: a blocking and an asynchronous detection on the same logic, the same
\* pre-supplied bytes (through fill () or as initial buffers) and transports
\* that answer their reads alike deliver the same verdict and the same
\* leftover bytes to the callback and ask the transport for the same reads.
C4_BlockingAsyncEquivalence ==
    \A i, j \in Inst :
        (/\ Blocking(det[i]) /\ Suspending(det[j])
         /\ chunk[i] = chunk[j]
         /\ Terminal(det[i]) /\ Terminal(det[j]))
        => (/\ Delivered(det[i]) = Delivered(det[j])
            /\ det[i].requests = det[j].requests)

\* --------------------------------------------------------------------- C5
\* the two detectors run the same entry point, the first on a transport that
\* hands out one byte per read, the second on one that hands out all that is
\* asked for, and both have ended
OneVersusFull ==
    /\ chunk[1] = "one" /\ chunk[2] = "full"
    /\ det[1].entry = det[2].entry
    /\ Terminal(det[1]) /\ Terminal(det[2])

\* C5 as stated: one-byte reads and as-requested reads end with the same
\* verdict and the same leftover bytes, for every logic.
C5_ChunkingIndependence ==
    OneVersusFull => Delivered(det[1]) = Delivered(det[2])

\* C5 amended: both runs end the same way with the same verdict and error;
\* the leftover of the one-byte run is a prefix of the leftover of the
\* as-requested run, and equal to it when the logic decides only once
\* max_needed () bytes are buffered.
C5_ChunkingVerdict ==
    OneVersusFull =>
        /\ det[1].pc = det[2].pc
        /\ ~VerdictDelivered(det[1]) => det[1].ret = det[2].ret
        /\ Len(det[1].detects) = Len(det[2].detects)
        /\ \A k \in 1..Len(det[1].detects) :
            LET a == det[1].detects[k]
                b == det[2].detects[k]
            IN  /\ a.op = b.op
                /\ a.logic = b.logic
                /\ a.ec = b.ec
                /\ IsPrefix(a.buffers, b.buffers)
                /\ policy.decideAt >= policy.needed => a.buffers = b.buffers

C5_Witness ==
    /\ OneVersusFull
    /\ VerdictDelivered(det[1]) /\ VerdictDelivered(det[2])
    /\ Len(det[1].results) >= 2
    /\ Len(det[2].results) = 1 /\ det[2].results[1].n >= 2
    /\ det[1].detects[1].buffers = det[2].detects[1].buffers
    /\ det[1].detects[1].buffers # <<>>

\* --------------------------------------------------------------------- C6
\* C6: when read_some fails before a verdict, on_detect is invoked with that
\* error and the bytes buffered so far, analyze is not called for that
\* iteration, no further read is made and handshake returns that error.
C6_BlockingFailureDelivered ==
    \A i \in Inst :
        LET s == det[i]
        IN  (Blocking(s) /\ ReadFailed(s))
            => (/\ s.pc = "done"
                /\ s.ret = LastResult(s).ec
                /\ Len(s.requests) = Len(s.results)
                /\ Len(s.analyzed) < Len(s.results)
                /\ Len(s.detects) = 1
                /\ s.detects[1].op = "on_detect"
                /\ s.detects[1].ec = LastResult(s).ec
                /\ s.detects[1].buffers = data(s.m_buffer))

\* what the code does there: it returns the error without calling on_detect
C6_BlockingFailureReturned ==
    \A i \in Inst :
        LET s == det[i]
        IN  (Blocking(s) /\ ReadFailed(s))
            => (/\ s.pc = "done"
                /\ s.ret = LastResult(s).ec
                /\ Len(s.requests) = Len(s.results)
                /\ Len(s.analyzed) < Len(s.results)
                /\ s.detects = <<>>)

\* --------------------------------------------------------------------- C7
\* the completion handler of detector i runs in this step with an error
AsyncReadFails(i) ==
    /\ Suspending(det[i])
    /\ det[i].pc = "async_read"
    /\ det'[i] # det[i]
    /\ LastResult(det'[i]).ec # OK

\* C7: when a scheduled read completes with an error, on_async_read_some
\* neither commits nor analyzes, calls on_async_detect exactly once with that
\* error, the state of the logic as it was and the readable bytes as they
\* were, and schedules no read; a detector that has delivered does nothing
\* more.
C7_AsyncFailureDelivered ==
    [][\A i \in Inst :
        /\ AsyncReadFails(i) =>
            /\ det'[i].m_buffer.in = det[i].m_buffer.in
            /\ det'[i].committed = det[i].committed
            /\ det'[i].analyzed = det[i].analyzed
            /\ det'[i].m_logic = det[i].m_logic
            /\ det'[i].requests = det[i].requests
            /\ det'[i].pc = "done"
            /\ Len(det'[i].detects) = 1
            /\ det'[i].detects[1].ec = LastResult(det'[i]).ec
            /\ det'[i].detects[1].logic = det[i].m_logic
            /\ det'[i].detects[1].buffers = data(det[i].m_buffer)
            /\ det'[i].detects[1].op \in
                {"on_async_detect_error", "on_async_detect_transfer"}
        /\ (Suspending(det[i]) /\ det[i].pc = "done") => det'[i] = det[i]
      ]_vars

C7_Witness ==
    \E i \in Inst :
        /\ Suspending(det[i])
        /\ det[i].pc = "done"
        /\ Len(det[i].results) >= 2
        /\ LastResult(det[i]).ec = "reset" /\ LastResult(det[i]).n = 1
        /\ Len(det[i].detects) = 1
        /\ det[i].detects[1].ec = "reset"
        /\ det[i].detects[1].buffers # <<>>

\* --------------------------------------------------------------------- C8
\* C8: the blocking handshake returns the transport's error when a read
\* failed; otherwise a verdict was reached, on_detect was given ec = success
\* and handshake returns what the callback left in ec.  The value the
\* caller's ec held on entry never comes back.
C8_BlockingReturnValue ==
    \A i \in Inst :
        LET s == det[i]
        IN  Blocking(s) =>
                /\ (s.pc = "done") = (s.ret # "none")
                /\ s.ret # "none" =>
                    IF ReadFailed(s)
                    THEN s.ret = LastResult(s).ec
                    ELSE /\ VerdictDelivered(s)
                         /\ s.detects[1].ec = OK
                         /\ s.ret = s.detects[1].ecOut

C8_Witness ==
    \E i \in Inst :
        /\ Blocking(det[i])
        /\ det[i].entry_ec = "stale"
        /\ det[i].results # <<>>
        /\ VerdictDelivered(det[i])
        /\ det[i].detects[1].ec = OK
        /\ det[i].ret = "rejected"

\* --------------------------------------------------------------------- C9
\* C9: every delivery of an asynchronous detection uses the on_async_detect
\* overload of the entry point that was invoked and passes the completion
\* handler registered by that call; the detector never invokes that handler
\* itself.
C9_ContinuationRouting ==
    \A i \in Inst :
        LET s == det[i]
        IN  Suspending(s) =>
                /\ s.origCalls = 0
                /\ \A k \in 1..Len(s.detects) :
                    /\ s.detects[k].handler = s.registered
                    /\ s.detects[k].handler \in Handlers
                    /\ s.entry = "async_handshake"
                        => s.detects[k].op = "on_async_detect_error"
                    /\ s.entry = "async_handshake_buffered"
                        => s.detects[k].op = "on_async_detect_transfer"

C9_Witness ==
    /\ \A i \in Inst :
        /\ det[i].entry = "async_handshake_buffered"
        /\ det[i].results # <<>>
        /\ VerdictDelivered(det[i])
        /\ det[i].detects[1].op = "on_async_detect_transfer"
    /\ det[1].detects[1].handler = "hB"
    /\ det[2].detects[1].handler = "hA"

\* -------------------------------------------------------------------- C10
\* reads scheduled and not completed yet
Outstanding(s) == Len(s.requests) - Len(s.results)

\* C10: an asynchronous detection has at most one async_read_some
\* outstanding: exactly one from the bootstrap until it delivers or aborts,
\* none afterwards; a read is scheduled only by the bootstrap or by the
\* completion of the previous read, one at a time.
C10_SingleReadInFlight ==
    /\ [](\A i \in Inst :
            Suspending(det[i]) =>
                /\ Outstanding(det[i]) \in {0, 1}
                /\ (Outstanding(det[i]) = 1) = (det[i].pc = "async_read")
                /\ (Outstanding(det[i]) = 1) = (~Terminal(det[i]))
                /\ det[i].detects # <<>> => Outstanding(det[i]) = 0)
    /\ [][\A i \in Inst :
            (Suspending(det'[i]) /\ Len(det'[i].requests) > Len(det[i].requests)) =>
                /\ Len(det'[i].requests) = Len(det[i].requests) + 1
                /\ \/ det[i].pc = "idle"
                   \/ /\ det[i].pc = "async_read"
                      /\ Len(det'[i].results) = Len(det[i].results) + 1
         ]_vars

C10_Witness ==
    \E i \in Inst :
        /\ Suspending(det[i])
        /\ det[i].pc = "async_read"
        /\ Len(det[i].results) >= 2
        /\ Outstanding(det[i]) = 1

\* -------------------------------------------------------------------- C11
\* the logic decides on one byte and peeks only, nothing was pre-supplied and
\* the first read of detector i brought one byte
OneByteExample(i) ==
    /\ policy = [needed |-> 1, decideAt |-> 1, used |-> 0]
    /\ PreSupplied(det[i]) = 0
    /\ det[i].results # <<>>
    /\ det[i].results[1] = [ec |-> OK, n |-> 1]

\* C11: a read is outstanding only while the logic is not finished, and a
\* verdict is delivered with success after reads that all succeeded.  When
\* the logic decides on one byte and the first read brings that byte,
\* detection is over after this single read, delivers success, the verdict of
\* that byte and the byte itself as leftover; this holds for both loops.
C11_ReadsStopAtVerdict ==
    \A i \in Inst :
        LET s == det[i]
        IN  /\ s.pc \in {"read_some", "async_read"} => ~finished(s.m_logic)
            /\ finished(s.m_logic) => Len(s.requests) = Len(s.results)
            /\ VerdictDelivered(s) =>
                /\ s.detects[1].ec = OK
                /\ \A k \in 1..Len(s.results) : s.results[k].ec = OK
            /\ OneByteExample(i) =>
                /\ s.pc = "done"
                /\ s.requests = <<1>>
                /\ Len(s.results) = 1
                /\ VerdictDelivered(s)
                /\ s.detects[1].ec = OK
                /\ s.detects[1].buffers = <<wire[1]>>
                /\ s.detects[1].logic.verdict = Classify(wire[1])

C11_Witness ==
    /\ wire = <<22>>
    /\ chunk[2] = "full"
    /\ Blocking(det[1]) /\ Suspending(det[2])
    /\ \A i \in Inst :
        /\ OneByteExample(i)
        /\ det[i].pc = "done"
        /\ det[i].detects[1].buffers = <<22>>
        /\ det[i].detects[1].logic.verdict = "encrypted"

\* -------------------------------------------------------------------- C12
\* a detection is under way or over, the logic is not finished and the arena
\* holds at least max_needed() readable bytes
ContractViolated(s) ==
    /\ s.entry # "none"
    /\ ~finished(s.m_logic)
    /\ size(s.m_buffer) >= max_needed(policy)

\* what the fatal check leaves behind: the loop stopped without a read
\* outstanding, without a delivery and without a returned error
FatalStop(s) ==
    /\ s.pc = "aborted"
    /\ Outstanding(s) = 0
    /\ s.detects = <<>>
    /\ s.ret = "none"

\* C12 as stated: whenever the logic is not finished while the arena holds at
\* least max_needed() readable bytes, the loop stopped at the fatal check: no
\* read is outstanding, nothing was delivered and no error was returned.
C12_ContractViolationAborts ==
    \A i \in Inst : ContractViolated(det[i]) => FatalStop(det[i])

\* C12 amended: the same, unless the arena was brought to max_needed() bytes
\* by a blocking read_some that failed; its bytes are committed, the logic
\* never sees them and the loop returns the transport error.
C12_ContractViolationAbortsUnlessReadFailed ==
    \A i \in Inst :
        LET s == det[i]
        IN  /\ ContractViolated(s) /\ ~(Blocking(s) /\ ReadFailed(s))
                => FatalStop(s)
            /\ ContractViolated(s) /\ Blocking(s) /\ ReadFailed(s) =>
                /\ s.pc = "done"
                /\ s.ret = LastResult(s).ec
                /\ Outstanding(s) = 0
                /\ s.detects = <<>>
                /\ LastResult(s).n > 0
            /\ s.pc \in {"read_some", "async_read"} =>
                size(s.m_buffer) < max_needed(policy)

C12_Witness ==
    /\ Blocking(det[1]) /\ Suspending(det[2])
    /\ \A i \in Inst :
        /\ ContractViolated(det[i])
        /\ FatalStop(det[i])
        /\ det[i].results # <<>>
        /\ det[i].analyzed # <<>>

\* -------------------------------------------------------------------- C13
Max(a, b) == IF a >= b THEN a ELSE b

\* bytes the first k reads transferred
RECURSIVE Transferred_upto(_, _)
Transferred_upto(results, k) ==
    IF k = 0 THEN 0 ELSE Transferred_upto(results, k - 1) + results[k].n

\* readable bytes of the arena when the k-th read was requested
AvailableAt(s, k) == PreSupplied(s) + Transferred_upto(s.results, k - 1)

\* C13: every read is requested for exactly max_needed() minus the readable
\* bytes of the arena at that moment, which are fewer than max_needed(), so a
\* request is at least 1 and the subtraction never goes below zero; no read
\* transfers more than was requested, and the arena never holds more readable
\* bytes than the larger of the pre-supplied count and max_needed().
C13_NoOverReading ==
    \A i \in Inst :
        LET s == det[i]
        IN  /\ \A k \in 1..Len(s.requests) :
                /\ AvailableAt(s, k) < max_needed(policy)
                /\ s.requests[k] = max_needed(policy) - AvailableAt(s, k)
                /\ s.requests[k] >= 1
            /\ \A k \in 1..Len(s.results) : s.results[k].n <= s.requests[k]
            /\ size(s.m_buffer) <= Max(PreSupplied(s), max_needed(policy))
            /\ Len(s.committed) <= Max(PreSupplied(s), max_needed(policy))

C13_Witness ==
    /\ Blocking(det[1]) /\ Suspending(det[2])
    /\ max_needed(policy) = MaxNeeded
    /\ \A i \in Inst :
        /\ PreSupplied(det[i]) = 0
        /\ det[i].requests = <<MaxNeeded, MaxNeeded - 1>>
        /\ Len(det[i].results) = 2
        /\ size(det[i].m_buffer) = max_needed(policy)

\* -------------------------------------------------------------------- C14
\* C14: while the logic is not finished nothing was consumed and the readable
\* region is the whole sequence committed so far; every analyze call is handed
\* that whole region from its first byte on; consume is called at most once,
\* exactly when a verdict is delivered, in the same step and before the
\* delivery, with an amount that is not larger than the readable count.
C14_ConsumeOnlyAtVerdict ==
    /\ [](\A i \in Inst :
            LET s == det[i]
            IN  /\ ~finished(s.m_logic) =>
                    /\ s.consumes = <<>>
                    /\ s.removed = <<>>
                    /\ data(s.m_buffer) = s.committed
                /\ \A k \in 1..Len(s.analyzed) : IsPrefix(s.analyzed[k], s.committed)
                /\ Len(s.consumes) <= 1
                /\ (s.consumes # <<>>) = VerdictDelivered(s)
                /\ s.consumes # <<>> =>
                    /\ s.consumes[1] <= Len(s.committed)
                    /\ s.consumes[1] = Len(s.removed)
                    /\ s.analyzed[Len(s.analyzed)] = s.committed
                    /\ s.removed \o s.detects[1].buffers = s.committed
                    /\ s.detects[1].buffers = data(s.m_buffer))
    /\ [][\A i \in Inst :
            /\ Len(det'[i].analyzed) > Len(det[i].analyzed) =>
                /\ det[i].consumes = <<>>
                /\ det'[i].analyzed[Len(det'[i].analyzed)] = det'[i].committed
            /\ det'[i].consumes # det[i].consumes =>
                /\ det[i].consumes = <<>>
                /\ det[i].detects = <<>>
                /\ Len(det'[i].detects) = 1]_vars

C14_Witness ==
    /\ Blocking(det[1]) /\ Suspending(det[2])
    /\ \A i \in Inst :
        /\ VerdictDelivered(det[i])
        /\ det[i].consumes = <<1>>
        /\ Len(det[i].analyzed) >= 2
        /\ Len(det[i].removed) = 1
        /\ det[i].detects[1].buffers # <<>>

\* -------------------------------------------------------------------- C15
\* C15: after any sequence of async_handshake invocations on one detector
\* that left the program running, at most one of m_origHandler and
\* m_origBufferedHandler is set, and a handler was assigned at most once.
C15_OnePendingContinuation ==
    \A i \in Inst :
        LET s == det[i]
        IN  s.pc # "aborted" =>
                /\ ~(s.m_origHandler # Null /\ s.m_origBufferedHandler # Null)
                /\ s.populated <= 1

\* the same for a detector that was entered once
C15_OnePendingContinuationSingleEntry ==
    \A i \in Inst :
        LET s == det[i]
        IN  /\ ~(s.m_origHandler # Null /\ s.m_origBufferedHandler # Null)
            /\ s.populated <= 1
            /\ (s.populated = 1) = Suspending(s)
            /\ (s.m_origHandler # Null) = (s.entry = "async_handshake")
            /\ (s.m_origBufferedHandler # Null) =
                    (s.entry = "async_handshake_buffered")

\* -------------------------------------------------------------------- C16
\* C16: after a scheduled read completed with an error and n bytes written,
\* the arena's readable bytes are the pre-supplied bytes and the bytes of the
\* earlier, successful reads and nothing else: the n bytes stay uncommitted,
\* nothing was consumed, the logic has analyzed none of them and is in the
\* state it was delivered in, and the leftover handed over with the error is
\* exactly that readable region.
C16_FailedReadLeavesState ==
    \A i \in Inst :
        LET s == det[i]
            earlier == PreSupplied(s) + Transferred_upto(s.results, Len(s.results) - 1)
        IN  Suspending(s) /\ ReadFailed(s) =>
                /\ Len(s.committed) = earlier
                /\ s.committed = SubSeq(wire, 1, earlier)
                /\ data(s.m_buffer) = s.committed
                /\ s.taken = earlier + LastResult(s).n
                /\ s.m_buffer.out = SubSeq(wire, earlier + 1, s.taken)
                /\ s.consumes = <<>>
                /\ ~finished(s.m_logic)
                /\ \A k \in 1..Len(s.analyzed) : Len(s.analyzed[k]) <= earlier
                /\ Len(s.detects) = 1
                /\ s.detects[1].buffers = s.committed
                /\ s.detects[1].logic = s.m_logic
                /\ s.detects[1].ec = LastResult(s).ec

C16_Witness ==
    \E i \in Inst :
        /\ Suspending(det[i])
        /\ ReadFailed(det[i])
        /\ PreSupplied(det[i]) = 1
        /\ LastResult(det[i]).n = 1
        /\ Len(det[i].m_buffer.out) = 1
        /\ det[i].detects[1].buffers = <<wire[1]>>
        /\ det[i].analyzed # <<>>

\* -------------------------------------------------------------------- C17
\* the detection of s is over by a verdict or by a transport error
Ended(s) == finished(s.m_logic) \/ ReadFailed(s)

\* C17: a detection calls the callback at most once (on_detect, or one of the
\* two on_async_detect overloads); the call is the last thing the loop does:
\* what was handed over is the final state of the logic and of the arena, no
\* read is outstanding, and the detector never changes afterwards.  An
\* asynchronous detection that ended, by verdict or by transport error, has
\* called it exactly once.
C17_ExactlyOnceDelivery ==
    /\ [](\A i \in Inst :
            LET s == det[i]
            IN  /\ Len(s.detects) <= 1
                /\ Blocking(s) /\ s.detects # <<>> =>
                    s.detects[1].op = "on_detect"
                /\ Suspending(s) /\ s.detects # <<>> =>
                    s.detects[1].op \in
                        {"on_async_detect_error", "on_async_detect_transfer"}
                /\ s.detects # <<>> =>
                    /\ s.pc = "done"
                    /\ Outstanding(s) = 0
                    /\ s.detects[1].logic = s.m_logic
                    /\ s.detects[1].buffers = data(s.m_buffer)
                /\ Suspending(s) /\ Ended(s) => Len(s.detects) = 1
                /\ Suspending(s) /\ s.pc = "done" => Ended(s))
    /\ [][\A i \in Inst :
            /\ det[i].detects # <<>> => det'[i] = det[i]
            /\ det'[i].detects # det[i].detects =>
                /\ Len(det'[i].analyzed) <= Len(det[i].analyzed) + 1
                /\ Len(det'[i].requests) = Len(det[i].requests)]_vars

C17_Witness ==
    /\ Blocking(det[1]) /\ Suspending(det[2])
    /\ VerdictDelivered(det[1])
    /\ det[1].results # <<>>
    /\ Len(det[2].detects) = 1
    /\ ReadFailed(det[2])
    /\ Len(det[2].results) >= 2

\* -------------------------------------------------------------------- C18
\* number of reads of s that completed without an error
RECURSIVE SuccessfulReads(_)
SuccessfulReads(results) ==
    IF results = <<>> THEN 0
    ELSE SuccessfulReads(SubSeq(results, 1, Len(results) - 1))
            + (IF results[Len(results)].ec = OK THEN 1 ELSE 0)

Returned(s) == s.pc = "done" /\ s.ret # "none"

\* C18: when every read completes with an error or at least one byte and the
\* logic is finished once it analyzed max_needed () bytes, every blocking
\* handshake eventually returns and every asynchronous detection eventually
\* delivers, after at most max_needed () successful reads.
C18_Termination ==
    /\ [](\A i \in Inst : SuccessfulReads(det[i].results) <= max_needed(policy))
    /\ \A i \in Inst : Blocking(det[i]) ~> Returned(det[i])
    /\ \A i \in Inst : Suspending(det[i]) ~> (Len(det[i].detects) = 1)

\* what holds instead: a blocking handshake returns, and an asynchronous
\* detection delivers unless the bootstrap stopped at the contract check
C18_TerminationUnlessAborted ==
    /\ [](\A i \in Inst : SuccessfulReads(det[i].results) <= max_needed(policy))
    /\ \A i \in Inst : Blocking(det[i]) ~> Returned(det[i])
    /\ \A i \in Inst :
        Suspending(det[i]) ~>
            \/ Len(det[i].detects) = 1
            \/ /\ det[i].pc = "aborted"
               /\ det[i].requests = <<>>
               /\ det[i].analyzed = <<>>
               /\ det[i].nfill >= max_needed(policy)

=============================================================================
